---- MODULE Spec2Model ----
(***************************************************************************)
(* Model of the completion gateway (common/llm_utils.py) and of the        *)
(* /query handler of the DataScribe service (services/datascribe/app.py).  *)
(*                                                                         *)
(* Texts are TLA+ strings; a character is a string of length one.  TLA+    *)
(* string literals cannot hold the backquote character, so the backquote   *)
(* is written "~" throughout: the Markdown fence of three backquotes is    *)
(* the string "~~~".                                                       *)
(***************************************************************************)
EXTENDS Integers, Sequences, FiniteSets, TLC

VARIABLES
    USE_MOCK,        \* OPENAI_OFFLINE == "1", read once at import
    api_key,         \* OPENAI_API_KEY is set in the environment
    DEFAULT_MAX_RETRIES,  \* OPENAI_MAX_RETRIES, the max_retries of every call
    _client,         \* cached sync handle: None or the OpenAI client
    _async_client,   \* cached async handle
    constructed,     \* handles constructed so far, per path
    pc,              \* position of each caller of complete / acomplete
    path,            \* "sync": in complete, "async": in acomplete
    client,          \* the local variable client of the call
    attempt_number,  \* provider attempts made by the call (tenacity's attempt_number)
    outcome,         \* outcome of the call's latest attempt
    result,          \* what the call returned or raised
    q_pc,            \* position of the /query handler
    db_seeded,       \* the demo database exists and is populated
    raw_model_sql,   \* query: raw_model_sql
    sanitized_sql,   \* query: sanitized_sql
    status,          \* HTTP status of the response (0: none yet)
    message,         \* detail["message"] of an error response
    executed,        \* arguments _execute_sql has been called with in this request
    llm_call,        \* how the call of complete in query ended: returned or raised
    detail           \* the entries <<key, value>> of the response body that carry
                     \* data of the request (beside message)

cfgvars == <<USE_MOCK, api_key, DEFAULT_MAX_RETRIES>>
gvars == <<_client, _async_client, constructed, pc, path, client, attempt_number,
           outcome, result>>
qvars == <<q_pc, db_seeded, raw_model_sql, sanitized_sql, status, message, executed,
           llm_call, detail>>
vars == <<cfgvars, gvars, qvars>>

-----------------------------------------------------------------------------
(* Bounds *)

\* longest concatenation of fragments the provider stub returns
MaxFrags == 3
\* concurrent callers of complete / acomplete
NumCallers == 2
\* largest configured retry count
MaxRetries == 2

-----------------------------------------------------------------------------
(* Python str and re primitives *)

Ch(s, i) == SubSeq(s, i, i)

\* the slices s[:n] and s[n:], for n >= 0
Take(s, n) == IF n >= Len(s) THEN s ELSE SubSeq(s, 1, n)
Drop(s, n) == IF n >= Len(s) THEN "" ELSE SubSeq(s, n + 1, Len(s))

\* str.isspace / the regex class \s
IsSpace(c) == c \in {" ", "\n", "\t", "\r"}

UPPER == "ABCDEFGHIJKLMNOPQRSTUVWXYZ"
LOWER == "abcdefghijklmnopqrstuvwxyz"
DIGITS == "0123456789"
Chars(s) == {Ch(s, i) : i \in 1..Len(s)}
UpperSet == Chars(UPPER)
WordSet == Chars(UPPER) \cup Chars(LOWER) \cup Chars(DIGITS) \cup {"_"}
LowerOf == [c \in UpperSet |-> Ch(LOWER, CHOOSE i \in 1..Len(UPPER) : c = Ch(UPPER, i))]

\* the regex class \w
IsWordCh(c) == c \in WordSet

LowerCh(c) == IF c \in UpperSet THEN LowerOf[c] ELSE c

\* str.lower
RECURSIVE Lower(_)
Lower(s) == IF s = "" THEN "" ELSE LowerCh(Ch(s, 1)) \o Lower(Drop(s, 1))

\* str.lstrip, also what a leading \s* consumes
RECURSIVE LStrip(_)
LStrip(s) == IF s # "" /\ IsSpace(Ch(s, 1)) THEN LStrip(Drop(s, 1)) ELSE s

RECURSIVE RStrip(_)
RStrip(s) ==
    IF s # "" /\ IsSpace(Ch(s, Len(s))) THEN RStrip(Take(s, Len(s) - 1)) ELSE s

\* str.strip
Strip(s) == RStrip(LStrip(s))

\* str.startswith
StartsWith(s, p) == Len(s) >= Len(p) /\ Take(s, Len(p)) = p

\* str.find, 1-based; 0 when p does not occur
Find(s, p) ==
    LET hits == {i \in 1..(Len(s) - Len(p) + 1) : SubSeq(s, i, i + Len(p) - 1) = p}
    IN  IF hits = {} THEN 0 ELSE CHOOSE i \in hits : \A j \in hits : i <= j

\* the operator `p in s`
Contains(s, p) == Find(s, p) # 0

\* str.split(sep)
RECURSIVE Split(_, _)
Split(s, sep) ==
    LET i == Find(s, sep)
    IN  IF i = 0 THEN <<s>>
        ELSE <<Take(s, i - 1)>> \o Split(Drop(s, i - 1 + Len(sep)), sep)

\* a split that keeps the whole string
SplitFirst_KeepAll(s, sep) == s

\* str.split(sep, 1)[0]
SplitFirst(s, sep) ==
    LET i == Find(s, sep) IN IF i = 0 THEN s ELSE Take(s, i - 1)

-----------------------------------------------------------------------------
(* services/datascribe/app.py *)

FENCE == "~~~"

\* re.sub(r"^```(?:sql)?\s*", "", s, flags=re.IGNORECASE)
SubFenceOpen(s) ==
    IF ~StartsWith(s, FENCE) THEN s
    ELSE LET a == Drop(s, 3)
             b == IF Lower(Take(a, 3)) = "sql" THEN Drop(a, 3) ELSE a
         IN  LStrip(b)

\* re.sub(r"\s*```$", "", s): $ matches at the end and before a final newline
SubFenceClose(s) ==
    LET tail(i) == LStrip(Drop(s, i - 1))
        hits == {i \in 1..(Len(s) + 1) : tail(i) \in {FENCE, FENCE \o "\n"}}
    IN  IF hits = {} THEN s
        ELSE LET i == CHOOSE k \in hits : \A j \in hits : k <= j
             IN  Take(s, i - 1) \o (IF tail(i) = FENCE THEN "" ELSE "\n")

\* re.sub(r"^\s*SQL\s*:\s*", "", s, flags=re.IGNORECASE)
SubLabel(s) ==
    LET a == LStrip(s)
        b == LStrip(Drop(a, 3))
    IN  IF Lower(Take(a, 3)) = "sql" /\ StartsWith(b, ":")
        THEN LStrip(Drop(b, 1))
        ELSE s

\* _sanitize_sql without the strip that follows the truncation at ";"
_sanitize_sql_NoFinalStrip(raw) ==
    LET s0 == Strip(raw)
        s1 == IF StartsWith(s0, FENCE) THEN SubFenceClose(SubFenceOpen(s0)) ELSE s0
        s2 == Strip(SubLabel(s1))
    IN  IF Contains(s2, ";") THEN SplitFirst(s2, ";") ELSE s2

_sanitize_sql(raw) ==
    LET s0 == Strip(raw)
        s1 == IF StartsWith(s0, FENCE) THEN SubFenceClose(SubFenceOpen(s0)) ELSE s0
        s2 == Strip(SubLabel(s1))
    IN  IF Contains(s2, ";") THEN Strip(SplitFirst(s2, ";")) ELSE s2

\* query, step 2: the fenced-code handling before _sanitize_sql
FencedCandidate(text) ==
    IF Contains(text, FENCE)
    THEN LET candidates ==
                 SelectSeq(Split(text, FENCE), LAMBDA p : Contains(Lower(p), "select"))
         IN  IF candidates # <<>> THEN Strip(candidates[1]) ELSE text
    ELSE text

\* the match without the word boundary: r"^\s*select"
MatchSelect_NoBoundary(lowered) == StartsWith(LStrip(lowered), "select")

\* re.match(r"^\s*select\b", lowered)
MatchSelect(lowered) ==
    LET a == LStrip(lowered)
    IN  StartsWith(a, "select") /\ (Len(a) = 6 \/ ~IsWordCh(Ch(a, 7)))

DenyList == {"insert", "update", "delete", "drop", "create", "alter", "truncate"}

\* any(word in lowered for word in [...])
DenyHit(lowered) == \E word \in DenyList : Contains(lowered, word)

MsgNotSelect == "Only SELECT queries are allowed."
MsgRefused == "Refusing non-SELECT SQL for safety."
MsgExecFailed == "SQL execution failed."
MsgLLMFailed == "LLM request failed."
HintLLM == "Check OPENAI_API_KEY, model availability, org/project, and billing/quota."
HintNotSelect == "Tune the system prompt or rephrase the question to elicit a SELECT."
HintExecFailed ==
    "Inspect the sanitized_sql and confirm the schema: "
    \o "sales(day TEXT, sku TEXT, qty INT, price REAL)."

\* the whole of steps 2 and 3 of query, as a function of the stripped model text
Cleaned(text) == _sanitize_sql(FencedCandidate(text))
Accepted(text) == MatchSelect(Lower(Cleaned(text))) /\ ~DenyHit(Lower(Cleaned(text)))

-----------------------------------------------------------------------------
(* The texts the provider stub returns *)

Fragments ==
    { "~~~", "~", "sql", "SQL:", ":", "\n", " ", ";", "select", "SELECT 1", "sel",
      "ect", "drop", "created", "x" }

Examples ==
    { "~~~sql\nSELECT 1\n~~~",
      "~~~\nSELECT 1\n~~~",
      "SELECT created_at FROM sales",
      "SELECT * FROM update_log",
      "SELECT 1; DROP TABLE sales;",
      "SQL: select qty from sales",
      "DELETE FROM sales",
      "SELECT sku FROM sales WHERE sku IN (SELECT sku FROM sales); DELETE FROM sales",
      "Here is the select: ~~~SELECT 1~~~",
      "~~~sql\nDROP TABLE sales\n~~~ then ~~~sql\nSELECT 1\n~~~" }

RECURSIVE Concats(_)
Concats(n) ==
    IF n = 0 THEN {""} ELSE {f \o t : f \in Fragments, t \in Concats(n - 1)}

Texts == UNION {Concats(n) : n \in 0..MaxFrags} \cup Examples

-----------------------------------------------------------------------------
(* common/llm_utils.py *)

None == "None"
Callers == 1..NumCallers

_MOCK_TS_SNIPPET ==
    "import { test, expect } from '@playwright/test';\n\n"
    \o "test.describe('generated suite', () => {\n"
    \o "  test('generated', async ({ page }) => {\n"
    \o "    await page.goto('https://example.com');\n"
    \o "    await expect(page).toHaveTitle(/Example/);\n"
    \o "  });\n"
    \o "});\n"

\* the text of a successful provider response in the gateway specification
Reply == "SELECT 1"

\* base class of each exception class (openai's exception hierarchy, builtins)
BaseOf ==
    [ APITimeoutError     |-> "APIConnectionError",
      APIConnectionError  |-> "APIError",
      RateLimitError      |-> "APIStatusError",
      AuthenticationError |-> "APIStatusError",
      APIStatusError      |-> "APIError",
      APIError            |-> "OpenAIError",
      OpenAIError         |-> "Exception",
      TypeError           |-> "Exception",
      AttributeError      |-> "Exception",
      RuntimeError        |-> "Exception" ]

\* isinstance(e, cls) for an exception of class e
RECURSIVE IsInstance(_, _)
IsInstance(e, cls) ==
    \/ e = cls
    \/ e \in DOMAIN BaseOf /\ IsInstance(BaseOf[e], cls)

_retryable_exceptions ==
    {"APIConnectionError", "APITimeoutError", "RateLimitError", "APIError"}

\* retry_if_exception_type(_retryable_exceptions())
ShouldRetry(e) == \E cls \in _retryable_exceptions : IsInstance(e, cls)

\* stop_after_attempt(max_retries): one attempt short
Stop_OneShort(n, max_retries) == n >= max_retries

\* stop_after_attempt(max_retries + 1)
Stop(n, max_retries) == n >= max_retries + 1

\* what an attempt of chat.completions.create can raise
ProviderErrors == {"APITimeoutError", "RateLimitError", "AuthenticationError", "TypeError"}

\* the locals of a call that is not running
Reset(c) ==
    /\ path' = [path EXCEPT ![c] = "none"]
    /\ client' = [client EXCEPT ![c] = None]
    /\ attempt_number' = [attempt_number EXCEPT ![c] = 0]
    /\ outcome' = [outcome EXCEPT ![c] = "none"]
    /\ result' = [result EXCEPT ![c] = "none"]

\* complete without the test of USE_MOCK
CallComplete_NoMockTest(c) ==
    /\ pc[c] = "idle"
    /\ path' = [path EXCEPT ![c] = "sync"]
    /\ pc' = [pc EXCEPT ![c] = "get_client"]
    /\ UNCHANGED <<cfgvars, qvars, _client, _async_client, constructed, client,
                   attempt_number, outcome, result>>

\* complete, up to the call of _get_client
CallComplete(c) ==
    /\ pc[c] = "idle"
    /\ path' = [path EXCEPT ![c] = "sync"]
    /\ IF USE_MOCK
       THEN /\ pc' = [pc EXCEPT ![c] = "returned"]
            /\ result' = [result EXCEPT ![c] = _MOCK_TS_SNIPPET]
       ELSE /\ pc' = [pc EXCEPT ![c] = "get_client"]
            /\ UNCHANGED result
    /\ UNCHANGED <<cfgvars, qvars, _client, _async_client, constructed, client,
                   attempt_number, outcome>>

\* acomplete, up to the call of _get_async_client
CallAcomplete(c) ==
    /\ pc[c] = "idle"
    /\ path' = [path EXCEPT ![c] = "async"]
    /\ IF USE_MOCK
       THEN /\ pc' = [pc EXCEPT ![c] = "returned"]
            /\ result' = [result EXCEPT ![c] = _MOCK_TS_SNIPPET]
       ELSE /\ pc' = [pc EXCEPT ![c] = "get_async_client"]
            /\ UNCHANGED result
    /\ UNCHANGED <<cfgvars, qvars, _client, _async_client, constructed, client,
                   attempt_number, outcome>>

\* _get_client: the two tests of the cache; client.with_options on the result
GetClientCheck(c) ==
    /\ pc[c] = "get_client"
    /\ IF USE_MOCK
       THEN \* _get_client returns None and None.with_options raises
            /\ pc' = [pc EXCEPT ![c] = "raised"]
            /\ result' = [result EXCEPT ![c] = "AttributeError"]
            /\ UNCHANGED client
       ELSE IF _client # None
       THEN /\ client' = [client EXCEPT ![c] = _client]
            /\ pc' = [pc EXCEPT ![c] = "request"]
            /\ UNCHANGED result
       ELSE /\ pc' = [pc EXCEPT ![c] = "construct"]
            /\ UNCHANGED <<client, result>>
    /\ UNCHANGED <<cfgvars, qvars, _client, _async_client, constructed, path,
                   attempt_number, outcome>>

\* _get_client without the test of api_key
GetClientConstruct_NoKeyTest(c) ==
    /\ pc[c] = "construct"
    /\ constructed' = [constructed EXCEPT !["sync"] = @ + 1]
    /\ client' = [client EXCEPT ![c] = "OpenAI"]
    /\ pc' = [pc EXCEPT ![c] = "store"]
    /\ UNCHANGED <<cfgvars, qvars, _client, _async_client, path, attempt_number,
                   outcome, result>>

\* _get_client: the credential test and OpenAI(...)
GetClientConstruct(c) ==
    /\ pc[c] = "construct"
    /\ IF ~api_key
       THEN /\ pc' = [pc EXCEPT ![c] = "raised"]
            /\ result' = [result EXCEPT ![c] = "RuntimeError"]
            /\ UNCHANGED <<constructed, client>>
       ELSE /\ constructed' = [constructed EXCEPT !["sync"] = @ + 1]
            /\ client' = [client EXCEPT ![c] = "OpenAI"]
            /\ pc' = [pc EXCEPT ![c] = "store"]
            /\ UNCHANGED result
    /\ UNCHANGED <<cfgvars, qvars, _client, _async_client, path, attempt_number, outcome>>

\* _get_client: the assignment to the global and the return
GetClientStore(c) ==
    /\ pc[c] = "store"
    /\ _client' = client[c]
    /\ pc' = [pc EXCEPT ![c] = "request"]
    /\ UNCHANGED <<cfgvars, qvars, _async_client, constructed, path, client,
                   attempt_number, outcome, result>>

\* _get_async_client: no await inside, so it runs in one step of the event loop
GetAsyncClient(c) ==
    /\ pc[c] = "get_async_client"
    /\ IF USE_MOCK
       THEN /\ pc' = [pc EXCEPT ![c] = "raised"]
            /\ result' = [result EXCEPT ![c] = "AttributeError"]
            /\ UNCHANGED <<_async_client, constructed, client>>
       ELSE IF _async_client # None
       THEN /\ client' = [client EXCEPT ![c] = _async_client]
            /\ pc' = [pc EXCEPT ![c] = "request"]
            /\ UNCHANGED <<_async_client, constructed, result>>
       ELSE IF ~api_key
       THEN /\ pc' = [pc EXCEPT ![c] = "raised"]
            /\ result' = [result EXCEPT ![c] = "RuntimeError"]
            /\ UNCHANGED <<_async_client, constructed, client>>
       ELSE /\ constructed' = [constructed EXCEPT !["async"] = @ + 1]
            /\ _async_client' = "AsyncOpenAI"
            /\ client' = [client EXCEPT ![c] = "AsyncOpenAI"]
            /\ pc' = [pc EXCEPT ![c] = "request"]
            /\ UNCHANGED result
    /\ UNCHANGED <<cfgvars, qvars, _client, path, attempt_number, outcome>>

\* one attempt of _do_request / of the AsyncRetrying body that succeeds
ProviderSucceeds(c) ==
    /\ pc[c] = "request"
    /\ attempt_number' = [attempt_number EXCEPT ![c] = @ + 1]
    /\ outcome' = [outcome EXCEPT ![c] = "ok"]
    /\ result' = [result EXCEPT ![c] = Reply]
    /\ pc' = [pc EXCEPT ![c] = "returned"]
    /\ UNCHANGED <<cfgvars, qvars, _client, _async_client, constructed, path, client>>

\* one attempt that raises e, and tenacity's decision: retry, or re-raise e
ProviderFails(c, e) ==
    /\ pc[c] = "request"
    /\ attempt_number' = [attempt_number EXCEPT ![c] = @ + 1]
    /\ outcome' = [outcome EXCEPT ![c] = e]
    /\ IF ShouldRetry(e) /\ ~Stop(attempt_number[c] + 1, DEFAULT_MAX_RETRIES)
       THEN /\ pc' = [pc EXCEPT ![c] = "sleep"]
            /\ UNCHANGED result
       ELSE /\ pc' = [pc EXCEPT ![c] = "raised"]
            /\ result' = [result EXCEPT ![c] = e]
    /\ UNCHANGED <<cfgvars, qvars, _client, _async_client, constructed, path, client>>

\* wait_exponential(multiplier=0.5, min=0.5, max=8): the sleep before the next
\* attempt, for which tenacity clears the outcome of the failed one
Backoff(c) ==
    /\ pc[c] = "sleep"
    /\ pc' = [pc EXCEPT ![c] = "request"]
    /\ outcome' = [outcome EXCEPT ![c] = "none"]
    /\ UNCHANGED <<cfgvars, qvars, _client, _async_client, constructed, path, client,
                   attempt_number, result>>

\* the caller takes the result; the locals of the call are gone
Finish(c) ==
    /\ pc[c] \in {"returned", "raised"}
    /\ pc' = [pc EXCEPT ![c] = "idle"]
    /\ Reset(c)
    /\ UNCHANGED <<cfgvars, qvars, _client, _async_client, constructed>>

GatewayInit ==
    /\ USE_MOCK \in BOOLEAN
    /\ api_key \in BOOLEAN
    /\ DEFAULT_MAX_RETRIES \in 0..MaxRetries
    /\ _client = None
    /\ _async_client = None
    /\ constructed = [p \in {"sync", "async"} |-> 0]
    /\ pc = [c \in Callers |-> "idle"]
    /\ path = [c \in Callers |-> "none"]
    /\ client = [c \in Callers |-> None]
    /\ attempt_number = [c \in Callers |-> 0]
    /\ outcome = [c \in Callers |-> "none"]
    /\ result = [c \in Callers |-> "none"]

-----------------------------------------------------------------------------
(* services/datascribe/app.py: the /query handler *)

\* ensure_db, and the strip of the question
QueryStart ==
    /\ q_pc = "idle"
    /\ \/ /\ db_seeded' = TRUE
          /\ q_pc' = "call_llm"
          /\ UNCHANGED <<status, message>>
       \/ \* the seeding subprocess fails: subprocess.run(check=True) raises
          /\ ~db_seeded
          /\ q_pc' = "done"
          /\ status' = 500
          /\ message' = "Internal Server Error"
          /\ UNCHANGED db_seeded
    /\ UNCHANGED <<cfgvars, gvars, raw_model_sql, sanitized_sql, executed, llm_call,
                   detail>>

\* complete(...) returns a text; raw_model_sql = (raw_model_sql or "").strip()
QueryCompleteReturns ==
    /\ q_pc = "call_llm"
    /\ \E text \in (IF USE_MOCK THEN {_MOCK_TS_SNIPPET} ELSE Texts) :
          /\ USE_MOCK \/ api_key
          /\ raw_model_sql' = Strip(text)
    /\ llm_call' = "returned"
    /\ q_pc' = "fence"
    /\ UNCHANGED <<cfgvars, gvars, db_seeded, sanitized_sql, status, message, executed,
                   detail>>

\* complete(...) raises: the configuration error or a provider error
QueryCompleteRaises ==
    /\ q_pc = "call_llm"
    /\ ~USE_MOCK
    /\ llm_call' = "raised"
    /\ status' = 502
    /\ message' = MsgLLMFailed
    /\ \E e \in (IF api_key THEN ProviderErrors ELSE {"RuntimeError"}) :
          detail' = {<<"exception", e>>, <<"hint", HintLLM>>}
    /\ q_pc' = "done"
    /\ UNCHANGED <<cfgvars, gvars, db_seeded, raw_model_sql, sanitized_sql, executed>>

\* step 2, fenced code
QueryFence ==
    /\ q_pc = "fence"
    /\ sanitized_sql' = FencedCandidate(raw_model_sql)
    /\ q_pc' = "sanitize"
    /\ UNCHANGED <<cfgvars, gvars, db_seeded, raw_model_sql, status, message, executed,
                   llm_call, detail>>

\* sanitized_sql = _sanitize_sql(sanitized_sql)
QuerySanitize ==
    /\ q_pc = "sanitize"
    /\ sanitized_sql' = _sanitize_sql(sanitized_sql)
    /\ q_pc' = "guard"
    /\ UNCHANGED <<cfgvars, gvars, db_seeded, raw_model_sql, status, message, executed,
                   llm_call, detail>>

\* guardrails that consult the denylist before the SELECT check
QueryGuard_DenyFirst ==
    /\ q_pc = "guard"
    /\ LET lowered == Lower(sanitized_sql)
       IN  IF DenyHit(lowered)
           THEN /\ status' = 400
                /\ message' = MsgRefused
                /\ detail' = {<<"raw_model_sql", raw_model_sql>>,
                              <<"sanitized_sql", sanitized_sql>>}
                /\ q_pc' = "done"
           ELSE IF ~MatchSelect(lowered)
           THEN /\ status' = 400
                /\ message' = MsgNotSelect
                /\ detail' = {<<"raw_model_sql", raw_model_sql>>,
                              <<"sanitized_sql", sanitized_sql>>,
                              <<"hint", HintNotSelect>>}
                /\ q_pc' = "done"
           ELSE /\ q_pc' = "execute"
                /\ UNCHANGED <<status, message, detail>>
    /\ UNCHANGED <<cfgvars, gvars, db_seeded, raw_model_sql, sanitized_sql, executed,
                   llm_call>>

\* step 3, guardrails
QueryGuard ==
    /\ q_pc = "guard"
    /\ LET lowered == Lower(sanitized_sql)
       IN  IF ~MatchSelect(lowered)
           THEN /\ status' = 400
                /\ message' = MsgNotSelect
                /\ detail' = {<<"raw_model_sql", raw_model_sql>>,
                              <<"sanitized_sql", sanitized_sql>>,
                              <<"hint", HintNotSelect>>}
                /\ q_pc' = "done"
           ELSE IF DenyHit(lowered)
           THEN /\ status' = 400
                /\ message' = MsgRefused
                /\ detail' = {<<"raw_model_sql", raw_model_sql>>,
                              <<"sanitized_sql", sanitized_sql>>}
                /\ q_pc' = "done"
           ELSE /\ q_pc' = "execute"
                /\ UNCHANGED <<status, message, detail>>
    /\ UNCHANGED <<cfgvars, gvars, db_seeded, raw_model_sql, sanitized_sql, executed,
                   llm_call>>

\* a handler that answers a failed execution as it answers a failed completion
QueryExecute_502 ==
    /\ q_pc = "execute"
    /\ executed' = Append(executed, sanitized_sql)
    /\ \/ /\ status' = 200
          /\ message' = ""
          /\ detail' = {<<"sql", sanitized_sql>>}
       \/ /\ status' = 502
          /\ message' = MsgLLMFailed
          /\ detail' = {<<"exception", "DatabaseError">>, <<"hint", HintLLM>>}
    /\ q_pc' = "done"
    /\ UNCHANGED <<cfgvars, gvars, db_seeded, raw_model_sql, sanitized_sql, llm_call>>

\* step 4: _execute_sql(sanitized_sql) returns rows or raises
QueryExecute ==
    /\ q_pc = "execute"
    /\ executed' = Append(executed, sanitized_sql)
    /\ \/ /\ status' = 200
          /\ message' = ""
          /\ detail' = {<<"sql", sanitized_sql>>}
       \/ /\ status' = 400
          /\ message' = MsgExecFailed
          /\ detail' = {<<"raw_model_sql", raw_model_sql>>,
                        <<"sanitized_sql_tried", sanitized_sql>>,
                        <<"hint", HintExecFailed>>}
    /\ q_pc' = "done"
    /\ UNCHANGED <<cfgvars, gvars, db_seeded, raw_model_sql, sanitized_sql, llm_call>>

\* the response is sent; the handler waits for the next request
QueryDone ==
    /\ q_pc = "done"
    /\ q_pc' = "idle"
    /\ raw_model_sql' = ""
    /\ sanitized_sql' = ""
    /\ status' = 0
    /\ message' = ""
    /\ executed' = <<>>
    /\ llm_call' = "none"
    /\ detail' = {}
    /\ UNCHANGED <<cfgvars, gvars, db_seeded>>

QueryInit ==
    /\ q_pc = "idle"
    /\ raw_model_sql = ""
    /\ sanitized_sql = ""
    /\ status = 0
    /\ message = ""
    /\ executed = <<>>
    /\ llm_call = "none"
    /\ detail = {}

-----------------------------------------------------------------------------
(* Specifications *)

\* the gateway under concurrent callers
Init ==
    /\ GatewayInit
    /\ QueryInit
    /\ db_seeded = TRUE

Next ==
    \E c \in Callers :
        \/ CallComplete(c)
        \/ CallAcomplete(c)
        \/ GetClientCheck(c)
        \/ GetClientConstruct(c)
        \/ GetClientStore(c)
        \/ GetAsyncClient(c)
        \/ ProviderSucceeds(c)
        \/ \E e \in ProviderErrors : ProviderFails(c, e)
        \/ Backoff(c)
        \/ Finish(c)

Spec == Init /\ [][Next]_vars

\* one /query request after another
InitQuery ==
    /\ GatewayInit
    /\ DEFAULT_MAX_RETRIES = MaxRetries
    /\ QueryInit
    /\ db_seeded \in BOOLEAN

NextQuery ==
    \/ QueryStart
    \/ QueryCompleteReturns
    \/ QueryCompleteRaises
    \/ QueryFence
    \/ QuerySanitize
    \/ QueryGuard
    \/ QueryExecute
    \/ QueryDone

SpecQuery == InitQuery /\ [][NextQuery]_vars

-----------------------------------------------------------------------------
(* Vocabulary of the properties *)

\* w occurs in s as a whole word: no word character on either side
HasWord(s, w) ==
    \E i \in 1..(Len(s) - Len(w) + 1) :
        /\ SubSeq(s, i, i + Len(w) - 1) = w
        /\ (i = 1 \/ ~IsWordCh(Ch(s, i - 1)))
        /\ (i + Len(w) - 1 = Len(s) \/ ~IsWordCh(Ch(s, i + Len(w))))

\* s begins, case-insensitively, with the whole word select
BeginsWithSelectWord(s) ==
    /\ Lower(Take(s, 6)) = "select"
    /\ (Len(s) = 6 \/ ~IsWordCh(Ch(s, 7)))

DenyWords == {"insert", "update", "delete", "drop", "create", "alter", "truncate"}
HasDenyWord(s) == \E w \in DenyWords : HasWord(Lower(s), w)

\* the handler is past the sanitization of the model text
Sanitized == q_pc \in {"guard", "execute", "done"} /\ status \notin {500, 502}

\* the gate rejected the cleaned text
Rejected == q_pc = "done" /\ status = 400 /\ message \in {MsgNotSelect, MsgRefused}

\* the gate accepted the cleaned text
Forwarded == q_pc = "execute" \/ executed # <<>>

\* error classes the retry policy is meant for: connection failure, timeout, rate limit
Transient == {"APIConnectionError", "APITimeoutError", "RateLimitError"}

-----------------------------------------------------------------------------
(* Properties of the /query handler, under SpecQuery *)

\* C1: _execute_sql is called only at the last step of a request, after the
\* completion and the sanitization, and only with the cleaned text of the model
\* text, which begins with the whole word select and holds no denylisted word;
\* a text that fails a check is never executed.
C1_ExecuteOnlyCleanSelect ==
    /\ executed # <<>> => q_pc = "done" /\ Len(executed) = 1
    /\ \A i \in 1..Len(executed) :
          /\ executed[i] = sanitized_sql
          /\ executed[i] = Cleaned(raw_model_sql)
          /\ BeginsWithSelectWord(executed[i])
          /\ ~HasDenyWord(executed[i])
    /\ q_pc = "execute" =>
          BeginsWithSelectWord(sanitized_sql) /\ ~HasDenyWord(sanitized_sql)
    /\ Rejected => executed = <<>>

C1_Witness ==
    /\ status = 200
    /\ executed = <<"SELECT 1">>
    /\ raw_model_sql = "~~~\nSELECT 1\n~~~"

\* C5: a cleaned text that begins with select and holds denylisted keywords only
\* inside longer identifiers is forwarded to execution, not rejected.
C5_WholeWordDenylist ==
    (Sanitized /\ q_pc = "done"
        /\ BeginsWithSelectWord(sanitized_sql) /\ ~HasDenyWord(sanitized_sql))
    => executed # <<>>

\* C6: a model text wrapped in one fenced block, with or without the tag sql
\* after the opening fence, is cleaned to the interior of the block; the block
\* around SELECT 1 is cleaned to SELECT 1 and accepted.
FenceInterior(t) ==
    LET inner == SubSeq(t, 4, Len(t) - 3)
    IN  Strip(IF Lower(Take(inner, 3)) = "sql" THEN Drop(inner, 3) ELSE inner)

WrappedOnce(t) ==
    /\ Len(t) >= 6
    /\ StartsWith(t, FENCE)
    /\ SubSeq(t, Len(t) - 2, Len(t)) = FENCE
    /\ ~Contains(SubSeq(t, 4, Len(t) - 3), "~")

C6_FenceStripping ==
    /\ (Sanitized /\ WrappedOnce(raw_model_sql)
           /\ BeginsWithSelectWord(FenceInterior(raw_model_sql))
           /\ ~Contains(raw_model_sql, ";"))
       => sanitized_sql = FenceInterior(raw_model_sql)
    /\ (Sanitized /\ raw_model_sql = "~~~sql\nSELECT 1\n~~~")
       => sanitized_sql = "SELECT 1" /\ ~Rejected

C10_SanitizeIdempotent ==
    Forwarded =>
        /\ Cleaned(Strip(sanitized_sql)) = sanitized_sql
        /\ Accepted(Strip(sanitized_sql))

C10_Witness ==
    /\ q_pc = "execute"
    /\ raw_model_sql = "SQL:SELECT 1;"
    /\ sanitized_sql = "SELECT 1"

-----------------------------------------------------------------------------
(* Properties of the completion gateway, under Spec *)

\* C2: online, a call makes at most 1 + max_retries provider attempts; it
\* returns as soon as an attempt succeeds, with the text of that attempt, and
\* makes no attempt after it; it raises a transient error only after exactly
\* 1 + max_retries attempts, and then the error of the last attempt.
C2_RetryBudget ==
    \A c \in Callers :
        /\ attempt_number[c] <= 1 + DEFAULT_MAX_RETRIES
        /\ (pc[c] = "returned" /\ ~USE_MOCK) =>
              /\ outcome[c] = "ok"
              /\ result[c] = Reply
              /\ attempt_number[c] >= 1
        /\ pc[c] \in {"request", "sleep"} => outcome[c] # "ok"
        /\ (pc[c] = "raised" /\ outcome[c] \in Transient) =>
              /\ attempt_number[c] = 1 + DEFAULT_MAX_RETRIES
              /\ result[c] = outcome[c]
        /\ (pc[c] = "sleep" /\ outcome[c] \in Transient) =>
              attempt_number[c] <= DEFAULT_MAX_RETRIES

\* two transient failures and then a success in complete; three transient
\* failures in acomplete
C2_Witness ==
    /\ DEFAULT_MAX_RETRIES = 2
    /\ \E c \in Callers :
          /\ path[c] = "sync"
          /\ pc[c] = "returned"
          /\ attempt_number[c] = 3
    /\ \E c \in Callers :
          /\ path[c] = "async"
          /\ pc[c] = "raised"
          /\ result[c] = "APITimeoutError"
          /\ attempt_number[c] = 3

\* C3: an attempt that fails with a non-transient error is the last attempt of
\* the call: the error is raised to the caller at once, whatever max_retries.
C3_NonTransientNeverRetried ==
    \A c \in Callers :
        (outcome[c] \in ProviderErrors \ Transient) =>
            /\ pc[c] = "raised"
            /\ result[c] = outcome[c]

\* C4: online and without a credential, a call raises the configuration error
\* before any provider attempt, and no handle is constructed or cached.
C4_MissingCredentialFailsFast ==
    (~USE_MOCK /\ ~api_key) =>
        /\ _client = None
        /\ _async_client = None
        /\ constructed["sync"] = 0
        /\ constructed["async"] = 0
        /\ \A c \in Callers :
              /\ attempt_number[c] = 0
              /\ client[c] = None
              /\ pc[c] \in {"idle", "get_client", "construct", "get_async_client", "raised"}
              /\ pc[c] = "raised" => result[c] = "RuntimeError"

C4_Witness ==
    /\ ~USE_MOCK
    /\ ~api_key
    /\ \E c \in Callers : path[c] = "sync" /\ pc[c] = "raised"
    /\ \E c \in Callers : path[c] = "async" /\ pc[c] = "raised"

\* C7: each path constructs its client handle at most once, whatever the
\* interleaving of the first calls.
C7_HandleConstructedOnce ==
    /\ constructed["sync"] <= 1
    /\ constructed["async"] <= 1

\* C8: offline, every call returns the fixed mock text, without a provider
\* attempt and without a handle, with or without a credential.
C8_OfflineDeterminism ==
    USE_MOCK =>
        /\ _client = None
        /\ _async_client = None
        /\ constructed["sync"] = 0
        /\ constructed["async"] = 0
        /\ \A c \in Callers :
              /\ attempt_number[c] = 0
              /\ client[c] = None
              /\ pc[c] \in {"idle", "returned"}
              /\ pc[c] = "returned" => result[c] = _MOCK_TS_SNIPPET

C8_Witness ==
    /\ USE_MOCK
    /\ ~api_key
    /\ \E c \in Callers : path[c] = "sync" /\ pc[c] = "returned"
    /\ \E c \in Callers : path[c] = "async" /\ pc[c] = "returned"

\* ---------------------------------------------------------------------------
\* C11: /query answers 502 exactly when the call of complete raised (the
\* configuration error, or a provider error the gateway gave up on); the
\* response then names the exception, and nothing was cleaned or executed.
\* Whenever complete returned a text, the response is 200 or 400.
Responded == q_pc = "done"

C11_GatewayFailureIs502 ==
    /\ Responded => (status = 502 <=> llm_call = "raised")
    /\ llm_call = "raised" =>
          /\ Responded
          /\ status = 502
          /\ message = MsgLLMFailed
          /\ \E e \in ProviderErrors \cup {"RuntimeError"} : <<"exception", e>> \in detail
          /\ raw_model_sql = ""
          /\ sanitized_sql = ""
          /\ executed = <<>>
    /\ (Responded /\ llm_call = "returned") => status \in {200, 400}
    /\ (~Responded) => status = 0

\* the configuration error has been answered with 502
C11_Witness ==
    /\ Responded
    /\ ~api_key
    /\ llm_call = "raised"
    /\ status = 502
    /\ <<"exception", "RuntimeError">> \in detail

\* ---------------------------------------------------------------------------
\* C12: every rejection by the gate answers 400 with a detail that carries the
\* raw model text and the cleaned text, and the SELECT check decides before
\* the denylist: a cleaned text that does not begin with the word select is
\* rejected as not-a-select, also when it holds a denylisted keyword (as
\* DELETE FROM sales does); the denylist reason is given only to texts that
\* begin with select.
C12_RejectionCarriesTextsSelectFirst ==
    /\ Rejected =>
          /\ <<"raw_model_sql", raw_model_sql>> \in detail
          /\ <<"sanitized_sql", sanitized_sql>> \in detail
          /\ sanitized_sql = Cleaned(raw_model_sql)
          /\ executed = <<>>
    /\ (Rejected /\ ~BeginsWithSelectWord(sanitized_sql)) => message = MsgNotSelect
    /\ (Rejected /\ message = MsgRefused) => BeginsWithSelectWord(sanitized_sql)
    /\ (Responded /\ raw_model_sql = "DELETE FROM sales") =>
          /\ Rejected
          /\ message = MsgNotSelect
          /\ sanitized_sql = "DELETE FROM sales"

\* DELETE FROM sales has been rejected as not-a-select
C12_Witness ==
    /\ Rejected
    /\ raw_model_sql = "DELETE FROM sales"
    /\ DenyHit(Lower(sanitized_sql))
    /\ message = MsgNotSelect
    /\ <<"sanitized_sql", "DELETE FROM sales">> \in detail

\* ---------------------------------------------------------------------------
\* the fenced blocks of a text whose fences are balanced: the parts between an
\* opening and a closing fence, in order
FencesBalanced(t) == Len(Split(t, FENCE)) % 2 = 1
BlockIndexes(t) == {i \in 1..Len(Split(t, FENCE)) : i % 2 = 0}
SelectBlocks(t) ==
    {i \in BlockIndexes(t) : Contains(Lower(Split(t, FENCE)[i]), "select")}
FirstOf(S) == CHOOSE i \in S : \A j \in S : i <= j

\* the cleaned content of a fenced block, with or without its language tag
BlockCleaned(b) ==
    {_sanitize_sql(Strip(b)), _sanitize_sql(FenceInterior(FENCE \o b \o FENCE))}

\* C13: when the model text holds fenced blocks, the cleaned text is the
\* content of the first fenced block whose lowercased content contains
\* select, never text outside the fences; the whole trimmed text is cleaned
\* only when no fenced block qualifies.  Prose mentioning select before a
\* fenced SELECT 1 block still yields SELECT 1.
C13_FirstFencedSelectBlock ==
    /\ (Sanitized /\ q_pc # "guard" /\ Contains(raw_model_sql, FENCE)
           /\ FencesBalanced(raw_model_sql)) =>
          IF SelectBlocks(raw_model_sql) # {}
          THEN sanitized_sql \in
                   BlockCleaned(Split(raw_model_sql, FENCE)[FirstOf(SelectBlocks(raw_model_sql))])
          ELSE sanitized_sql = _sanitize_sql(raw_model_sql)
    /\ (Responded /\ raw_model_sql = "Here is the select: ~~~SELECT 1~~~") =>
          sanitized_sql = "SELECT 1"

====
